---- MODULE Spec2Model ----
(***************************************************************************)
(* House prediction market: LMSR pricing kernel, trading engine, market    *)
(* simulator, resolver and resolution scheduler, over one SQLite store.    *)
(*                                                                         *)
(* Numbers.  JavaScript numbers are modelled as fixed-point integers:      *)
(* cash and shares in tenths (Unit per dollar / per share), prices and the *)
(* arguments of Math.exp / Math.log in 1/K.  Division rounds down.         *)
(*                                                                         *)
(* Scheduling.  Node runs one handler at a time; a handler gives up the    *)
(* thread only at an await on real I/O.  Trades, quotes, simulator trades  *)
(* and resolves with a supplied outcome never reach such an await, so each *)
(* is one action.  A scheduler tick suspends at fetchFromSource(url): the  *)
(* tick is one action up to the fetch and one action per fetch return.     *)
(***************************************************************************)
EXTENDS Integers, Sequences, FiniteSets, Bags, TLC

(* ------------------------------ bounds --------------------------------- *)
MaxTrades == 2          \* rows in the transactions table
MaxNow    == 1          \* clock range 0..MaxNow
MaxTicks  == 2          \* scheduler ticks that may be in flight together

(* --------------------------- number model ------------------------------ *)
Unit == 10              \* model units per dollar and per share
K    == 10000           \* fixed-point denominator of prices and of exp/log
Ln2  == 6931            \* K * ln 2

Max(a, b) == IF a >= b THEN a ELSE b
Abs(a)    == IF a >= 0 THEN a ELSE -a

RECURSIVE ExpSeries(_, _, _, _)
ExpSeries(r, term, k, acc) ==
  IF term = 0 \/ k > 12 THEN acc
  ELSE LET next == (term * r) \div (K * k)
       IN ExpSeries(r, next, k + 1, IF k % 2 = 1 THEN acc - next ELSE acc + next)

RECURSIVE Halve(_, _)
Halve(v, n) == IF n = 0 THEN v ELSE Halve(v \div 2, n - 1)

\* Math.exp(-x / K) * K for x >= 0
ExpNeg(x) ==
  LET n == x \div Ln2
      r == x - n * Ln2
  IN IF n > 20 THEN 0 ELSE Halve(ExpSeries(r, K, 1, K), n)

RECURSIVE AtanhSeries(_, _, _, _)
AtanhSeries(t2, pow, k, acc) ==
  IF pow = 0 \/ k > 15 THEN acc
  ELSE AtanhSeries(t2, (pow * t2) \div K, k + 2, acc + pow \div k)

\* Math.log(y / K) * K for y in K..2K
Ln(y) ==
  LET t  == ((y - K) * K) \div (y + K)
      t2 == (t * t) \div K
  IN 2 * AtanhSeries(t2, t, 1, 0)

(* --------------------------- pricing kernel ---------------------------- *)
Sides == {"YES", "NO"}

\* b * ln(exp(qYes/b) + exp(qNo/b)) by log-sum-exp
lmsrCostDirect(qYes, qNo, b) ==
  LET maxQ   == Max(qYes, qNo)
      expSum == ExpNeg(((maxQ - qYes) * K) \div b) + ExpNeg(((maxQ - qNo) * K) \div b)
  IN maxQ + (b * Ln(expSum)) \div K

DefaultLiquidity == 100 * Unit
MaxQDiff == 25 * DefaultLiquidity

\* lmsrCost(d, 0, DefaultLiquidity) - d for 0 <= d <= MaxQDiff, evaluated once
CostTable == [d \in 0..MaxQDiff |-> lmsrCostDirect(d, 0, DefaultLiquidity) - d]

lmsrCost(qYes, qNo, b) ==
  LET d == Abs(qYes - qNo)
  IN IF b = DefaultLiquidity /\ d <= MaxQDiff
       THEN Max(qYes, qNo) + CostTable[d]
       ELSE lmsrCostDirect(qYes, qNo, b)

\* price of YES in 1/K
getYesPrice(state) ==
  LET qYes == state.total_yes_shares
      qNo  == state.total_no_shares
      b    == state.liquidity_pool
  IN IF b = 0 THEN K \div 2
     ELSE LET maxQ   == Max(qYes, qNo)
              expYes == ExpNeg(((maxQ - qYes) * K) \div b)
              expNo  == ExpNeg(((maxQ - qNo) * K) \div b)
          IN (expYes * K) \div (expYes + expNo)

getNoPrice(state) == K - getYesPrice(state)

CostTolerance == 1      \* |newCost - targetCost| < 0.0001 on whole units
MaxIter == 100
HighFactor == 10

RECURSIVE Bisect(_, _, _, _, _, _)
\* the for loop of calculateSharesForAmount.  On whole units the interval stops
\* shrinking at |high - low| <= 1: from there mid = low in every later iteration
\* and both exits of the loop return low.  (high < low for an amount < 0.)
Bisect(state, positionType, targetCost, low, high, i) ==
  IF i >= MaxIter THEN (low + high) \div 2
  ELSE IF Abs(high - low) <= 1 THEN low
  ELSE LET mid == (low + high) \div 2
           newCost == IF positionType = "YES"
                        THEN lmsrCost(state.total_yes_shares + mid, state.total_no_shares, state.liquidity_pool)
                        ELSE lmsrCost(state.total_yes_shares, state.total_no_shares + mid, state.liquidity_pool)
       IN IF Abs(newCost - targetCost) < CostTolerance THEN mid
          ELSE IF newCost < targetCost
                 THEN Bisect(state, positionType, targetCost, mid, high, i + 1)
                 ELSE Bisect(state, positionType, targetCost, low, mid, i + 1)

calculateSharesForAmount(state, positionType, amount) ==
  LET currentCost == lmsrCost(state.total_yes_shares, state.total_no_shares, state.liquidity_pool)
      targetCost  == currentCost + amount
  IN Bisect(state, positionType, targetCost, 0, amount * HighFactor, 0)

calculateAmountForShares(state, positionType, shares) ==
  LET currentCost == lmsrCost(state.total_yes_shares, state.total_no_shares, state.liquidity_pool)
      newCost == IF positionType = "YES"
                   THEN lmsrCost(state.total_yes_shares - shares, state.total_no_shares, state.liquidity_pool)
                   ELSE lmsrCost(state.total_yes_shares, state.total_no_shares - shares, state.liquidity_pool)
  IN Max(0, currentCost - newCost)

\* variant: a buy that adds the shares to both sides of the inventory
executeBuyBothSides(state, positionType, amount) ==
  LET shares == calculateSharesForAmount(state, positionType, amount)
  IN [shares |-> shares,
      avgPricePerShare |-> IF shares > 0 THEN (amount * K) \div shares ELSE 0,
      totalCost |-> amount,
      newYesShares |-> state.total_yes_shares + shares,
      newNoShares  |-> state.total_no_shares + shares]

\* shares, average price (1/K) and inventory after buying for amount
executeBuy(state, positionType, amount) ==
  LET shares == calculateSharesForAmount(state, positionType, amount)
  IN [shares |-> shares,
      avgPricePerShare |-> IF shares > 0 THEN (amount * K) \div shares ELSE 0,
      totalCost |-> amount,
      newYesShares |-> IF positionType = "YES" THEN state.total_yes_shares + shares ELSE state.total_yes_shares,
      newNoShares  |-> IF positionType = "NO" THEN state.total_no_shares + shares ELSE state.total_no_shares]

executeSell(state, positionType, shares) ==
  LET amountReceived == calculateAmountForShares(state, positionType, shares)
  IN [shares |-> shares,
      avgPricePerShare |-> IF shares > 0 THEN (amountReceived * K) \div shares ELSE 0,
      totalCost |-> amountReceived,
      newYesShares |-> IF positionType = "YES" THEN state.total_yes_shares - shares ELSE state.total_yes_shares,
      newNoShares  |-> IF positionType = "NO" THEN state.total_no_shares - shares ELSE state.total_no_shares]


(* ------------------------------- store --------------------------------- *)
Users      == {"u1"}                    \* registered through POST /register
SimTrader  == "sim"                     \* one of TRADER_NAMES, created on first use
UserOrder  == <<"u1", "sim">>           \* row order of the users table
MarketIds  == {"m1", "m2"}
MarketOrder == <<"m1", "m2">>           \* row order of the markets table
NULL == "NULL"
OK   == "ok"

RegisterBalance == 1000 * Unit
SimBalance      == 10000 * Unit
ManualSource == "manual"
UrlSource    == "url"

ErrMarketNotFound   == "Market not found"
ErrMarketNotOpen    == "Market is not open for trading"
ErrUserNotFound     == "User not found"
ErrInsufficientBal  == "Insufficient balance"
ErrInsufficientShr  == "Insufficient shares to sell"
ErrAlreadyResolved  == "Market is already resolved"
ErrUniqueResolution == "UNIQUE constraint failed: resolutions.market_id"
ErrUniquePosition   == "UNIQUE constraint failed: positions.user_id, positions.market_id, positions.position_type"
ErrValidation       == "ValidationError"
ErrSqlite           == "SqliteError"

initializeMarketState(liquidity) ==
  [total_yes_shares |-> 0, total_no_shares |-> 0, liquidity_pool |-> liquidity]

\* a row of the markets table as inserted by the seed and by POST /markets
NewMarket(source, closes_at, liquidity) ==
  [status |-> "open", outcome |-> NULL, resolution_source |-> source, closes_at |-> closes_at,
   total_yes_shares |-> initializeMarketState(liquidity).total_yes_shares,
   total_no_shares  |-> initializeMarketState(liquidity).total_no_shares,
   liquidity_pool   |-> initializeMarketState(liquidity).liquidity_pool]

PricePoint(marketId, state) ==
  [market_id |-> marketId, yes_price |-> getYesPrice(state), no_price |-> getNoPrice(state)]

\* the store after initializeDatabase, one registration and the creation of
\* one market that resolves by hand (m1) and one that resolves from a URL (m2)
InitialDb ==
  [users     |-> [u \in Users |-> RegisterBalance],
   markets   |-> [m \in MarketIds |->
                    NewMarket(IF m = "m1" THEN ManualSource ELSE UrlSource, 1, DefaultLiquidity)],
   positions |-> {},
   transactions  |-> <<>>,
   price_history |-> [i \in 1..Len(MarketOrder) |->
                        PricePoint(MarketOrder[i], initializeMarketState(DefaultLiquidity))],
   resolutions   |-> {}]

\* variant: a transaction that keeps the writes made before a throw
transactionNoRollback(pre, post, threw) == post

\* db.transaction(fn): fn's writes are kept if fn returns, undone if it throws
transaction(pre, post, threw) == IF threw THEN pre ELSE post

PositionRows(d, userId, marketId, positionType) ==
  {p \in d.positions : p.user_id = userId /\ p.market_id = marketId /\ p.position_type = positionType}

\* variant: a lookup that never finds the row
getPositionNone(d, userId, marketId, positionType) == {}

\* SELECT ... FROM positions WHERE user_id = ? AND market_id = ? AND position_type = ?  (.get)
\* the result is {} (undefined) or {row}
getPosition(d, userId, marketId, positionType) ==
  IF PositionRows(d, userId, marketId, positionType) = {} THEN {}
  ELSE {CHOOSE p \in PositionRows(d, userId, marketId, positionType) : TRUE}

Row(found) == CHOOSE p \in found : TRUE

\* newShares <= 0.0001: the threshold lies below a tenth of a share, so it is taken
\* as one model unit, the smallest remainder above zero the model can hold; a
\* remainder of one unit stands for a remainder in (0, 0.0001]
DustThreshold == 1

(* --------------------------- trading engine ---------------------------- *)
TradeRequest(userId, marketId, positionType, amount) ==
  [userId |-> userId, marketId |-> marketId, positionType |-> positionType, amount |-> amount]

BuyWriteCount == 5

\* the store after the first n statements of executeBuyTrade's transaction body
BuyWrites(d, req, market, result, n) ==
  LET w1 == [d EXCEPT !.markets[req.marketId].total_yes_shares = result.newYesShares,
                      !.markets[req.marketId].total_no_shares  = result.newNoShares]
      w2 == [w1 EXCEPT !.users[req.userId] = @ - req.amount]
      existingPosition == getPosition(w2, req.userId, req.marketId, req.positionType)
      newShares == IF existingPosition # {} THEN Row(existingPosition).shares + result.shares
                   ELSE result.shares
      newAvgPrice == IF existingPosition # {}
                       THEN LET totalCost == (Row(existingPosition).shares * Row(existingPosition).avg_price) \div K + req.amount
                            IN IF newShares = 0 THEN 0 ELSE (totalCost * K) \div newShares
                       ELSE result.avgPricePerShare
      newRow == [user_id |-> req.userId, market_id |-> req.marketId, position_type |-> req.positionType,
                 shares |-> newShares, avg_price |-> newAvgPrice]
      w3 == [w2 EXCEPT !.positions = IF existingPosition # {}
                                       THEN (@ \ existingPosition) \cup {newRow}
                                       ELSE @ \cup {newRow}]
      w4 == [w3 EXCEPT !.transactions = Append(@,
                 [user_id |-> req.userId, market_id |-> req.marketId, type |-> "BUY",
                  position_type |-> req.positionType, shares |-> result.shares,
                  price_per_share |-> result.avgPricePerShare, total_cost |-> req.amount])]
      w5 == [w4 EXCEPT !.price_history = Append(@, PricePoint(req.marketId,
                 [total_yes_shares |-> result.newYesShares, total_no_shares |-> result.newNoShares,
                  liquidity_pool |-> market.liquidity_pool]))]
  IN CASE n = 0 -> d [] n = 1 -> w1 [] n = 2 -> w2 [] n = 3 -> w3 [] n = 4 -> w4 [] OTHER -> w5

\* failAt = 0: every write succeeds; failAt = n: the n-th write throws
WritesDone(failAt, count) == IF failAt \in 1..count THEN failAt - 1 ELSE count

\* variant: the balance check left out
executeBuyTradeNoFundsCheck(d, req, failAt) ==
  IF req.marketId \notin DOMAIN d.markets THEN [err |-> ErrMarketNotFound, db |-> d]
  ELSE LET market == d.markets[req.marketId] IN
    IF market.status # "open" THEN [err |-> ErrMarketNotOpen, db |-> d]
    ELSE IF req.userId \notin DOMAIN d.users THEN [err |-> ErrUserNotFound, db |-> d]
    ELSE LET result == executeBuy(market, req.positionType, req.amount)
             threw  == failAt \in 1..BuyWriteCount
         IN [err |-> IF threw THEN ErrSqlite ELSE OK,
             db  |-> transaction(d, BuyWrites(d, req, market, result, WritesDone(failAt, BuyWriteCount)), threw)]

\* variant: the balance check only asks for a positive balance
executeBuyTradePositiveBalance(d, req, failAt) ==
  IF req.marketId \notin DOMAIN d.markets THEN [err |-> ErrMarketNotFound, db |-> d]
  ELSE LET market == d.markets[req.marketId] IN
    IF market.status # "open" THEN [err |-> ErrMarketNotOpen, db |-> d]
    ELSE IF req.userId \notin DOMAIN d.users THEN [err |-> ErrUserNotFound, db |-> d]
    ELSE IF d.users[req.userId] <= 0 THEN [err |-> ErrInsufficientBal, db |-> d]
    ELSE LET result == executeBuy(market, req.positionType, req.amount)
             threw  == failAt \in 1..BuyWriteCount
         IN [err |-> IF threw THEN ErrSqlite ELSE OK,
             db  |-> transaction(d, BuyWrites(d, req, market, result, WritesDone(failAt, BuyWriteCount)), threw)]

executeBuyTrade(d, req, failAt) ==
  IF req.marketId \notin DOMAIN d.markets THEN [err |-> ErrMarketNotFound, db |-> d]
  ELSE LET market == d.markets[req.marketId] IN
    IF market.status # "open" THEN [err |-> ErrMarketNotOpen, db |-> d]
    ELSE IF req.userId \notin DOMAIN d.users THEN [err |-> ErrUserNotFound, db |-> d]
    ELSE IF d.users[req.userId] < req.amount THEN [err |-> ErrInsufficientBal, db |-> d]
    ELSE LET result == executeBuy(market, req.positionType, req.amount)
             threw  == failAt \in 1..BuyWriteCount
         IN [err |-> IF threw THEN ErrSqlite ELSE OK,
             db  |-> transaction(d, BuyWrites(d, req, market, result, WritesDone(failAt, BuyWriteCount)), threw)]

SellWriteCount == 5

\* the store after the first n statements of executeSellTrade's transaction body
\* variant: the position row is deleted only when no share is left
SellWritesKeepsDust(d, req, market, position, result, n) ==
  LET w1 == [d EXCEPT !.markets[req.marketId].total_yes_shares = result.newYesShares,
                      !.markets[req.marketId].total_no_shares  = result.newNoShares]
      w2 == [w1 EXCEPT !.users[req.userId] = @ + result.totalCost]
      newShares == position.shares - req.amount
      w3 == [w2 EXCEPT !.positions = IF newShares <= 0
                                       THEN @ \ {position}
                                       ELSE (@ \ {position}) \cup {[position EXCEPT !.shares = newShares]}]
      w4 == [w3 EXCEPT !.transactions = Append(@,
                 [user_id |-> req.userId, market_id |-> req.marketId, type |-> "SELL",
                  position_type |-> req.positionType, shares |-> req.amount,
                  price_per_share |-> result.avgPricePerShare, total_cost |-> result.totalCost])]
      w5 == [w4 EXCEPT !.price_history = Append(@, PricePoint(req.marketId,
                 [total_yes_shares |-> result.newYesShares, total_no_shares |-> result.newNoShares,
                  liquidity_pool |-> market.liquidity_pool]))]
  IN CASE n = 0 -> d [] n = 1 -> w1 [] n = 2 -> w2 [] n = 3 -> w3 [] n = 4 -> w4 [] OTHER -> w5

SellWrites(d, req, market, position, result, n) ==
  LET w1 == [d EXCEPT !.markets[req.marketId].total_yes_shares = result.newYesShares,
                      !.markets[req.marketId].total_no_shares  = result.newNoShares]
      w2 == [w1 EXCEPT !.users[req.userId] = @ + result.totalCost]
      newShares == position.shares - req.amount
      w3 == [w2 EXCEPT !.positions = IF newShares <= DustThreshold
                                       THEN @ \ {position}
                                       ELSE (@ \ {position}) \cup {[position EXCEPT !.shares = newShares]}]
      w4 == [w3 EXCEPT !.transactions = Append(@,
                 [user_id |-> req.userId, market_id |-> req.marketId, type |-> "SELL",
                  position_type |-> req.positionType, shares |-> req.amount,
                  price_per_share |-> result.avgPricePerShare, total_cost |-> result.totalCost])]
      w5 == [w4 EXCEPT !.price_history = Append(@, PricePoint(req.marketId,
                 [total_yes_shares |-> result.newYesShares, total_no_shares |-> result.newNoShares,
                  liquidity_pool |-> market.liquidity_pool]))]
  IN CASE n = 0 -> d [] n = 1 -> w1 [] n = 2 -> w2 [] n = 3 -> w3 [] n = 4 -> w4 [] OTHER -> w5

\* variant: the share check rejects a sell of exactly the held shares
executeSellTradeStrict(d, req, failAt) ==
  IF req.marketId \notin DOMAIN d.markets THEN [err |-> ErrMarketNotFound, db |-> d]
  ELSE LET market == d.markets[req.marketId] IN
    IF market.status # "open" THEN [err |-> ErrMarketNotOpen, db |-> d]
    ELSE LET position == getPosition(d, req.userId, req.marketId, req.positionType) IN
      IF position = {} THEN [err |-> ErrInsufficientShr, db |-> d]
      ELSE IF Row(position).shares <= req.amount THEN [err |-> ErrInsufficientShr, db |-> d]
      ELSE LET result == executeSell(market, req.positionType, req.amount)
               threw  == failAt \in 1..SellWriteCount
           IN [err |-> IF threw THEN ErrSqlite ELSE OK,
               db  |-> transaction(d, SellWrites(d, req, market, Row(position), result,
                                                 WritesDone(failAt, SellWriteCount)), threw)]

\* variant: a sell that refuses only a closed market
executeSellTradeUnlessClosed(d, req, failAt) ==
  IF req.marketId \notin DOMAIN d.markets THEN [err |-> ErrMarketNotFound, db |-> d]
  ELSE LET market == d.markets[req.marketId] IN
    IF market.status = "closed" THEN [err |-> ErrMarketNotOpen, db |-> d]
    ELSE LET position == getPosition(d, req.userId, req.marketId, req.positionType) IN
      IF position = {} THEN [err |-> ErrInsufficientShr, db |-> d]
      ELSE IF Row(position).shares < req.amount THEN [err |-> ErrInsufficientShr, db |-> d]
      ELSE LET result == executeSell(market, req.positionType, req.amount)
               threw  == failAt \in 1..SellWriteCount
           IN [err |-> IF threw THEN ErrSqlite ELSE OK,
               db  |-> transaction(d, SellWrites(d, req, market, Row(position), result,
                                                 WritesDone(failAt, SellWriteCount)), threw)]

executeSellTrade(d, req, failAt) ==
  IF req.marketId \notin DOMAIN d.markets THEN [err |-> ErrMarketNotFound, db |-> d]
  ELSE LET market == d.markets[req.marketId] IN
    IF market.status # "open" THEN [err |-> ErrMarketNotOpen, db |-> d]
    ELSE LET position == getPosition(d, req.userId, req.marketId, req.positionType) IN
      IF position = {} THEN [err |-> ErrInsufficientShr, db |-> d]
      ELSE IF Row(position).shares < req.amount THEN [err |-> ErrInsufficientShr, db |-> d]
      ELSE LET result == executeSell(market, req.positionType, req.amount)
               threw  == failAt \in 1..SellWriteCount
           IN [err |-> IF threw THEN ErrSqlite ELSE OK,
               db  |-> transaction(d, SellWrites(d, req, market, Row(position), result,
                                                 WritesDone(failAt, SellWriteCount)), threw)]

\* the inventory a quote is priced to: shares added to (BUY) or taken from (SELL) positionType
AfterQuote(state, positionType, shares, action) ==
  LET delta == IF action = "BUY" THEN shares ELSE 0 - shares
  IN [state EXCEPT !.total_yes_shares = IF positionType = "YES" THEN @ + delta ELSE @,
                   !.total_no_shares  = IF positionType = "NO" THEN @ + delta ELSE @]

\* variant: a quote that does not look at the market's status
getQuoteAnyStatus(d, marketId, positionType, amount, action) ==
  IF marketId \notin DOMAIN d.markets THEN [err |-> ErrMarketNotFound, db |-> d, shares |-> 0, totalCost |-> 0]
  ELSE LET market == d.markets[marketId]
           quote == IF action = "BUY" THEN executeBuy(market, positionType, amount)
                    ELSE executeSell(market, positionType, amount)
       IN [err |-> OK, db |-> d, shares |-> quote.shares, totalCost |-> quote.totalCost]

\* variant: a quote that records the quoted price as a trade does
getQuoteRecordsPrice(d, marketId, positionType, amount, action) ==
  LET r == getQuoteAnyStatus(d, marketId, positionType, amount, action)
  IN IF r.err # OK \/ d.markets[marketId].status # "open" THEN [r EXCEPT !.err = IF r.err = OK THEN ErrMarketNotOpen ELSE r.err]
     ELSE [r EXCEPT !.db.price_history = Append(@, PricePoint(marketId, AfterQuote(d.markets[marketId], positionType, r.shares, action)))]

\* getQuote: reads only
getQuote(d, marketId, positionType, amount, action) ==
  IF marketId \notin DOMAIN d.markets THEN [err |-> ErrMarketNotFound, db |-> d, shares |-> 0, totalCost |-> 0]
  ELSE LET market == d.markets[marketId] IN
    IF market.status # "open" THEN [err |-> ErrMarketNotOpen, db |-> d, shares |-> 0, totalCost |-> 0]
    ELSE LET quote == IF action = "BUY" THEN executeBuy(market, positionType, amount)
                      ELSE executeSell(market, positionType, amount)
         IN [err |-> OK, db |-> d, shares |-> quote.shares, totalCost |-> quote.totalCost]

(* ----------------------------- simulator ------------------------------ *)
\* getRandomTrader / getOrCreateSimUser: the trader's row is inserted on first use
getOrCreateSimUser(d, name) ==
  IF name \in DOMAIN d.users THEN d
  ELSE [d EXCEPT !.users = [u \in DOMAIN d.users \cup {name} |->
                              IF u = name THEN SimBalance ELSE d.users[u]]]

\* simulateTrade: the same statements as the trading engine, each run on its
\* own (no db.transaction); try/catch turns a throw into "return false"
simulateTrade(d, marketId, isBuy, positionType, amount, sellPercent, failAt) ==
  IF marketId \notin DOMAIN d.markets \/ d.markets[marketId].status # "open"
    THEN [err |-> OK, traded |-> FALSE, db |-> d]
  ELSE
    LET market == d.markets[marketId]
        d1     == getOrCreateSimUser(d, SimTrader)
    IN IF isBuy
         THEN IF d1.users[SimTrader] < amount THEN [err |-> OK, traded |-> FALSE, db |-> d1]
              ELSE LET result == executeBuy(market, positionType, amount)
                       req    == TradeRequest(SimTrader, marketId, positionType, amount)
                       threw  == failAt \in 1..BuyWriteCount
                   IN IF result.shares <= 0 THEN [err |-> OK, traded |-> FALSE, db |-> d1]
                      ELSE [err |-> IF threw THEN ErrSqlite ELSE OK, traded |-> ~threw,
                            db |-> BuyWrites(d1, req, market, result, WritesDone(failAt, BuyWriteCount))]
         ELSE LET position == {p \in getPosition(d1, SimTrader, marketId, positionType) : p.shares > 0} IN
              IF position = {} THEN [err |-> OK, traded |-> FALSE, db |-> d1]
              ELSE LET sharesToSell == (Row(position).shares * sellPercent) \div 100
                       result == executeSell(market, positionType, sharesToSell)
                       req    == TradeRequest(SimTrader, marketId, positionType, sharesToSell)
                       threw  == failAt \in 1..SellWriteCount
                   IN [err |-> IF threw THEN ErrSqlite ELSE OK, traded |-> ~threw,
                       db |-> SellWrites(d1, req, market, Row(position), result,
                                         WritesDone(failAt, SellWriteCount))]

(* ------------------------------ resolver ------------------------------- *)
UserIndex(u) == CHOOSE i \in 1..Len(UserOrder) : UserOrder[i] = u

\* SELECT * FROM positions WHERE market_id = ? AND position_type = ?  (.all)
RECURSIVE RowsInOrder(_)
RowsInOrder(rows) ==
  IF rows = {} THEN <<>>
  ELSE LET first == CHOOSE p \in rows : \A q \in rows : UserIndex(p.user_id) <= UserIndex(q.user_id)
       IN <<first>> \o RowsInOrder(rows \ {first})

\* variant: every position of the market is selected, whatever its side
getPositionsOfMarket(d, marketId, outcome) ==
  RowsInOrder({p \in d.positions : p.market_id = marketId})

getWinningPositions(d, marketId, outcome) ==
  RowsInOrder({p \in d.positions : p.market_id = marketId /\ p.position_type = outcome})

\* variant: a resolutions table without the UNIQUE constraint on market_id
insertResolutionNoUnique(d, row) ==
  [err |-> OK, db |-> [d EXCEPT !.resolutions = @ \cup {row}]]

\* INSERT INTO resolutions: market_id is UNIQUE
insertResolution(d, row) ==
  IF \E r \in d.resolutions : r.market_id = row.market_id
    THEN [err |-> ErrUniqueResolution, db |-> d]
    ELSE [err |-> OK, db |-> [d EXCEPT !.resolutions = @ \cup {row}]]

RECURSIVE PayOut(_, _, _)
\* UPDATE users SET balance = balance + payout for the first n winning positions
PayOut(d, winningPositions, n) ==
  IF n = 0 THEN d
  ELSE LET position == winningPositions[n]
           payout   == position.shares
       IN [PayOut(d, winningPositions, n - 1) EXCEPT !.users[position.user_id] = @ + payout]

\* the store after the first n statements of executeResolution's body
ResolutionWrites(d, marketId, outcome, row, n) ==
  LET w1 == insertResolution(d, row).db
      w2 == [w1 EXCEPT !.markets[marketId].status = "resolved",
                       !.markets[marketId].outcome = outcome]
  IN CASE n = 0 -> d [] n = 1 -> w1 [] n = 2 -> w2
       [] OTHER -> PayOut(w2, getWinningPositions(w2, marketId, outcome), n - 2)

\* db.transaction(() => { insertResolution; updateMarket; pay winners })()
executeResolution(d, marketId, outcome, market, proof, resolvedBy, failAt) ==
  LET row == [market_id |-> marketId, outcome |-> outcome, source_url |-> market.resolution_source,
              source_response |-> proof, resolved_by |-> resolvedBy]
      winningPositions == getWinningPositions(d, marketId, outcome)
      count == 2 + Len(winningPositions)
      threw == insertResolution(d, row).err # OK \/ failAt \in 1..count
      done  == IF insertResolution(d, row).err # OK THEN 0 ELSE WritesDone(failAt, count)
  IN [err |-> IF insertResolution(d, row).err # OK THEN insertResolution(d, row).err
              ELSE IF threw THEN ErrSqlite ELSE OK,
      db  |-> transaction(d, ResolutionWrites(d, marketId, outcome, row, done), threw),
      payouts |-> IF threw THEN <<>>
                  ELSE [i \in 1..Len(winningPositions) |->
                          [market_id |-> marketId, userId |-> winningPositions[i].user_id,
                           amount |-> winningPositions[i].shares]],
      awaiting |-> FALSE]

\* variant: a market at exactly one half resolves YES
ProbabilityOutcomeAtLeastHalf(market) == IF 2 * getYesPrice(market) >= K THEN "YES" ELSE "NO"

ProbabilityOutcome(market) == IF 2 * getYesPrice(market) > K THEN "YES" ELSE "NO"

\* variant: the status of the market is not looked at
resolveMarketNoResolvedCheck(d, marketId, manualOutcome, resolvedBy, failAt) ==
  IF marketId \notin DOMAIN d.markets
    THEN [err |-> ErrMarketNotFound, db |-> d, payouts |-> <<>>, awaiting |-> FALSE]
  ELSE LET market == d.markets[marketId] IN
    IF manualOutcome # NULL
      THEN executeResolution(d, marketId, manualOutcome, market, "manual", resolvedBy, failAt)
    ELSE IF market.resolution_source = ManualSource
      THEN executeResolution(d, marketId, ProbabilityOutcome(market), market,
                             "probability_based", resolvedBy, failAt)
    ELSE [err |-> OK, db |-> d, payouts |-> <<>>, awaiting |-> TRUE]

\* resolveMarket up to its first await: the whole call unless the market has a URL
\* source and no outcome was supplied, where it stops at await fetchFromSource
resolveMarket(d, marketId, manualOutcome, resolvedBy, failAt) ==
  IF marketId \notin DOMAIN d.markets
    THEN [err |-> ErrMarketNotFound, db |-> d, payouts |-> <<>>, awaiting |-> FALSE]
  ELSE LET market == d.markets[marketId] IN
    IF market.status = "resolved"
      THEN [err |-> ErrAlreadyResolved, db |-> d, payouts |-> <<>>, awaiting |-> FALSE]
    ELSE IF manualOutcome # NULL
      THEN executeResolution(d, marketId, manualOutcome, market, "manual", resolvedBy, failAt)
    ELSE IF market.resolution_source = ManualSource
      THEN executeResolution(d, marketId, ProbabilityOutcome(market), market,
                             "probability_based", resolvedBy, failAt)
    ELSE [err |-> OK, db |-> d, payouts |-> <<>>, awaiting |-> TRUE]

FetchResults == {"met", "not_met", "failed"}

\* resolveMarket from the return of fetchFromSource on; market is the row read
\* before the fetch
resolveMarketAfterFetch(d, marketId, market, fetched, resolvedBy, failAt) ==
  IF fetched = "failed"
    THEN executeResolution(d, marketId, ProbabilityOutcome(market), market, "fallback", resolvedBy, failAt)
    ELSE executeResolution(d, marketId, IF fetched = "met" THEN "YES" ELSE "NO", market,
                           "fetched", resolvedBy, failAt)

\* variant: the route turns down every market that is not open
postResolveOpenOnly(d, marketId, outcome, resolved_by, failAt) ==
  IF outcome \notin Sides THEN [err |-> ErrValidation, db |-> d, payouts |-> <<>>, awaiting |-> FALSE]
  ELSE IF marketId \notin DOMAIN d.markets
    THEN [err |-> ErrMarketNotFound, db |-> d, payouts |-> <<>>, awaiting |-> FALSE]
  ELSE IF d.markets[marketId].status # "open"
    THEN [err |-> ErrAlreadyResolved, db |-> d, payouts |-> <<>>, awaiting |-> FALSE]
  ELSE resolveMarket(d, marketId, outcome, IF resolved_by = NULL THEN "manual" ELSE resolved_by, failAt)

\* POST /resolutions/:marketId/resolve
postResolve(d, marketId, outcome, resolved_by, failAt) ==
  IF outcome \notin Sides THEN [err |-> ErrValidation, db |-> d, payouts |-> <<>>, awaiting |-> FALSE]
  ELSE IF marketId \notin DOMAIN d.markets
    THEN [err |-> ErrMarketNotFound, db |-> d, payouts |-> <<>>, awaiting |-> FALSE]
  ELSE IF d.markets[marketId].status = "resolved"
    THEN [err |-> ErrAlreadyResolved, db |-> d, payouts |-> <<>>, awaiting |-> FALSE]
  ELSE resolveMarket(d, marketId, outcome, IF resolved_by = NULL THEN "manual" ELSE resolved_by, failAt)

(* ------------------------------ scheduler ------------------------------ *)
\* variant: the markets resolved by hand are left out of the selection
getMarketsForResolutionUrlOnly(d, clock) ==
  SelectSeq(MarketOrder, LAMBDA m : /\ m \in DOMAIN d.markets
                                    /\ d.markets[m].status = "open"
                                    /\ d.markets[m].closes_at <= clock
                                    /\ d.markets[m].resolution_source = UrlSource)

getMarketsForResolution(d, now) ==
  SelectSeq(MarketOrder, LAMBDA m : /\ m \in DOMAIN d.markets
                                    /\ d.markets[m].status = "open"
                                    /\ d.markets[m].closes_at <= now)

\* variant: a catch block that only logs
markClosedNot(d, marketId) == d

\* the catch block of checkAndResolveMarkets
markClosed(d, marketId) == [d EXCEPT !.markets[marketId].status = "closed"]

\* a tick that has run to completion leaves nothing behind
Finished == {}
\* a tick suspended in resolveMarket(due[i]) on the fetch; market is the row that
\* resolveMarket read before it
Suspended(due, i, market) == {[due |-> due, i |-> i, market |-> market]}

RECURSIVE resolveDueFrom(_, _, _, _, _, _)
\* the for loop of checkAndResolveMarkets from due[i] on, until it suspends at a
\* fetch or runs out of markets
resolveDueFrom(d, payouts, err, due, i, failAt) ==
  IF i > Len(due)
    THEN [db |-> d, payouts |-> payouts, err |-> err, tick |-> Finished]
  ELSE LET r == resolveMarket(d, due[i], NULL, "auto", failAt) IN
    IF r.awaiting
      THEN [db |-> d, payouts |-> payouts, err |-> err,
            tick |-> Suspended(due, i, d.markets[due[i]])]
    ELSE IF r.err = OK
      THEN resolveDueFrom(r.db, payouts \o r.payouts, err, due, i + 1, 0)
    ELSE resolveDueFrom(markClosed(r.db, due[i]), payouts, r.err, due, i + 1, 0)

\* variant: the due markets are marked closed before they are resolved
checkAndResolveMarketsClosesFirst(d, now, failAt) ==
  LET due == getMarketsForResolution(d, now)
      closed[i \in 0..Len(due)] == IF i = 0 THEN d ELSE markClosed(closed[i - 1], due[i])
  IN resolveDueFrom(closed[Len(due)], <<>>, OK, due, 1, failAt)

\* checkAndResolveMarkets up to its first suspension
checkAndResolveMarkets(d, now, failAt) ==
  resolveDueFrom(d, <<>>, OK, getMarketsForResolution(d, now), 1, failAt)

\* checkAndResolveMarkets from the return of the pending fetch to the next suspension
resumeCheckAndResolve(d, tick, fetched, failAt) ==
  LET marketId == tick.due[tick.i]
      r == resolveMarketAfterFetch(d, marketId, tick.market, fetched, "auto", failAt)
  IN IF r.err = OK
       THEN resolveDueFrom(r.db, r.payouts, OK, tick.due, tick.i + 1, 0)
       ELSE resolveDueFrom(markClosed(r.db, marketId), <<>>, r.err, tick.due, tick.i + 1, 0)

(* --------------------------- HTTP trade routes ------------------------- *)
\* POST /trading/buy
postBuy(d, userId, marketId, positionType, amount, failAt) ==
  IF amount = 0 \/ positionType \notin Sides \/ amount <= 0 THEN [err |-> ErrValidation, db |-> d]
  ELSE executeBuyTrade(d, TradeRequest(userId, marketId, positionType, amount), failAt)

\* POST /trading/sell
postSell(d, userId, marketId, positionType, shares, failAt) ==
  IF shares = 0 \/ positionType \notin Sides \/ shares <= 0 THEN [err |-> ErrValidation, db |-> d]
  ELSE executeSellTrade(d, TradeRequest(userId, marketId, positionType, shares), failAt)

\* POST /trading/quote
postQuote(d, marketId, positionType, amount, action) ==
  IF amount = 0 \/ positionType \notin Sides \/ action \notin {"BUY", "SELL"} \/ amount <= 0
    THEN [err |-> ErrValidation, db |-> d]
  ELSE [err |-> getQuote(d, marketId, positionType, amount, action).err,
        db  |-> getQuote(d, marketId, positionType, amount, action).db]

(* ------------------------------ the system ----------------------------- *)
VARIABLES
  db,         \* the SQLite store
  now,        \* the clock
  ticks,      \* the scheduler ticks suspended at a fetch (a bag)
  payoutLog,  \* the payouts returned by committed resolutions, in order
  last        \* the handler that is running and the error it ends with

vars == <<db, now, ticks, payoutLog, last>>

BuyAmounts  == {0, 10 * Unit, RegisterBalance}
QuoteAmounts == {0, 10 * Unit}
QuoteSides  == {"YES"}
SimSides    == {"YES"}
SimAmounts  == {20 * Unit}
SimPercents == {50}
ResolvedByInputs == {NULL}

\* the n-th write of the operation throws (0: none does): a write inside a
\* transaction, and the last write of a simulated trade
FailPoints    == {0, 2}
SimFailPoints == {0, 5}

HeldShares(userId, marketId, positionType) ==
  IF getPosition(db, userId, marketId, positionType) = {} THEN 0
  ELSE Row(getPosition(db, userId, marketId, positionType)).shares

SellAmounts(userId, marketId, positionType) ==
  {0, HeldShares(userId, marketId, positionType) \div 2,
   HeldShares(userId, marketId, positionType) - 1,
   HeldShares(userId, marketId, positionType), HeldShares(userId, marketId, positionType) + 1}

\* no handler is running
Idle == [op |-> "idle", err |-> OK]

Init ==
  /\ db = InitialDb
  /\ now = 0
  /\ ticks = EmptyBag
  /\ payoutLog = <<>>
  /\ last = Idle

Buy(userId, marketId, positionType, amount, failAt) ==
  LET r == postBuy(db, userId, marketId, positionType, amount, failAt) IN
  /\ last = Idle
  /\ Len(db.transactions) < MaxTrades
  /\ db' = r.db
  /\ last' = [op |-> "buy", err |-> r.err]
  /\ UNCHANGED <<now, ticks, payoutLog>>

Sell(userId, marketId, positionType, shares, failAt) ==
  LET r == postSell(db, userId, marketId, positionType, shares, failAt) IN
  /\ last = Idle
  /\ Len(db.transactions) < MaxTrades
  /\ db' = r.db
  /\ last' = [op |-> "sell", err |-> r.err]
  /\ UNCHANGED <<now, ticks, payoutLog>>

Quote(marketId, positionType, amount, action) ==
  LET r == postQuote(db, marketId, positionType, amount, action) IN
  /\ last = Idle
  /\ db' = r.db
  /\ last' = [op |-> "quote", err |-> r.err]
  /\ UNCHANGED <<now, ticks, payoutLog>>

\* runSimulation: one simulated trade on some open market
Simulate(marketId, isBuy, positionType, amount, sellPercent, failAt) ==
  LET r == simulateTrade(db, marketId, isBuy, positionType, amount, sellPercent, failAt) IN
  /\ last = Idle
  /\ Len(db.transactions) < MaxTrades
  /\ db.markets[marketId].status = "open"
  /\ db' = r.db
  /\ last' = [op |-> "simulate", err |-> r.err]
  /\ UNCHANGED <<now, ticks, payoutLog>>

ManualResolve(marketId, outcome, resolved_by, failAt) ==
  LET r == postResolve(db, marketId, outcome, resolved_by, failAt) IN
  /\ last = Idle
  /\ db' = r.db
  /\ payoutLog' = payoutLog \o r.payouts
  /\ last' = [op |-> "resolve", err |-> r.err]
  /\ UNCHANGED <<now, ticks>>

\* cron fires: a new tick runs until its first fetch
TickStart(failAt) ==
  LET r == checkAndResolveMarkets(db, now, failAt) IN
  /\ last = Idle
  /\ BagCardinality(ticks) < MaxTicks
  /\ db' = r.db
  /\ payoutLog' = payoutLog \o r.payouts
  /\ ticks' = ticks (+) SetToBag(r.tick)
  /\ last' = [op |-> "tick", err |-> r.err]
  /\ UNCHANGED now

\* the pending fetch of a suspended tick returns
FetchReturn(tick, fetched, failAt) ==
  LET r == resumeCheckAndResolve(db, tick, fetched, failAt) IN
  /\ last = Idle
  /\ BagIn(tick, ticks)
  /\ db' = r.db
  /\ payoutLog' = payoutLog \o r.payouts
  /\ ticks' = (ticks (-) SetToBag({tick})) (+) SetToBag(r.tick)
  /\ last' = [op |-> "tick", err |-> r.err]
  /\ UNCHANGED now

AdvanceClock ==
  /\ last = Idle
  /\ now < MaxNow
  /\ now' = now + 1
  /\ UNCHANGED <<db, ticks, payoutLog, last>>

\* the running handler returns to the event loop
Return ==
  /\ last # Idle
  /\ last' = Idle
  /\ UNCHANGED <<db, now, ticks, payoutLog>>

Next ==
  \/ \E u \in Users, m \in MarketIds, s \in Sides, a \in BuyAmounts, f \in FailPoints : Buy(u, m, s, a, f)
  \/ \E u \in Users, m \in MarketIds, s \in Sides, f \in FailPoints :
       \E a \in SellAmounts(u, m, s) : Sell(u, m, s, a, f)
  \/ \E m \in MarketIds, s \in QuoteSides, a \in QuoteAmounts, act \in {"BUY", "SELL"} : Quote(m, s, a, act)
  \/ \E m \in MarketIds, isBuy \in BOOLEAN, s \in SimSides, a \in SimAmounts, pct \in SimPercents,
        f \in SimFailPoints : Simulate(m, isBuy, s, a, pct, f)
  \/ \E m \in MarketIds, o \in Sides \cup {NULL}, by \in ResolvedByInputs, f \in FailPoints :
       ManualResolve(m, o, by, f)
  \/ \E f \in FailPoints : TickStart(f)
  \/ \E tick \in BagToSet(ticks), r \in FetchResults, f \in FailPoints : FetchReturn(tick, r, f)
  \/ AdvanceClock
  \/ Return

Spec == Init /\ [][Next]_vars

\* the steps that bear on the settling of due markets: buys and sells that build
\* and reduce the positions to pay, manual resolves, ticks, fetch returns, the clock
SettleNext ==
  \/ \E u \in Users, m \in MarketIds, s \in Sides : Buy(u, m, s, 10 * Unit, 0)
  \/ \E u \in Users, m \in MarketIds, s \in Sides :
       Sell(u, m, s, HeldShares(u, m, s), 0)
  \/ \E m \in MarketIds, o \in Sides, by \in ResolvedByInputs, f \in FailPoints :
       ManualResolve(m, o, by, f)
  \/ \E f \in FailPoints : TickStart(f)
  \/ \E tick \in BagToSet(ticks), r \in FetchResults, f \in FailPoints : FetchReturn(tick, r, f)
  \/ AdvanceClock
  \/ Return

\* TickStart is enabled exactly when no handler is running and the bound on
\* suspended ticks is not reached (it always changes last)
TickEnabled == last = Idle /\ BagCardinality(ticks) < MaxTicks

\* the system under the scheduling the code relies on: a running handler returns
\* (WF), cron keeps firing the tick callback every minute whatever else runs (SF of
\* TickStart, written out with its enabling condition), and a pending fetch
\* returns: axios answers, fails or times out after 10 s (SF of FetchReturn)
FairSpec ==
  /\ Init /\ [][SettleNext]_vars
  /\ WF_vars(Return)
  /\ ([]<>TickEnabled => []<><<\E f \in FailPoints : TickStart(f)>>_vars)
  /\ SF_vars(\E tick \in BagToSet(ticks), r \in FetchResults, f \in FailPoints : FetchReturn(tick, r, f))

(* ------------------- the pricing kernel on a fine scale ---------------- *)
\* The bisection of calculateSharesForAmount leaves its loop when the cost is
\* within 0.0001 of the target.  On tenths that window is a single value; here cash
\* and shares are in hundred-thousandths, so that the window is 19 values wide,
\* and b is 0.01 so that the numbers stay within 32 bits.
FineUnit      == 100000     \* model units per dollar and per share
FineTolerance == 10         \* 0.0001 * FineUnit
FineLiquidity == 1000       \* b = 0.01

RECURSIVE BisectFine(_, _, _, _, _, _)
\* the for loop of calculateSharesForAmount; as in Bisect, mid = low from
\* high - low <= 1 on and both exits of the loop return low
BisectFine(state, positionType, targetCost, low, high, i) ==
  IF i >= MaxIter THEN (low + high) \div 2
  ELSE IF high - low <= 1 THEN low
  ELSE LET mid == (low + high) \div 2
           newCost == IF positionType = "YES"
                        THEN lmsrCost(state.total_yes_shares + mid, state.total_no_shares, state.liquidity_pool)
                        ELSE lmsrCost(state.total_yes_shares, state.total_no_shares + mid, state.liquidity_pool)
       IN IF Abs(newCost - targetCost) < FineTolerance THEN mid
          ELSE IF newCost < targetCost
                 THEN BisectFine(state, positionType, targetCost, mid, high, i + 1)
                 ELSE BisectFine(state, positionType, targetCost, low, mid, i + 1)

calculateSharesForAmountFine(state, positionType, amount) ==
  LET currentCost == lmsrCost(state.total_yes_shares, state.total_no_shares, state.liquidity_pool)
      targetCost  == currentCost + amount
  IN BisectFine(state, positionType, targetCost, 0, amount * HighFactor, 0)

\* the inventory after buying shares of positionType
AfterBuy(state, positionType, shares) ==
  [state EXCEPT !.total_yes_shares = IF positionType = "YES" THEN @ + shares ELSE @,
                !.total_no_shares  = IF positionType = "NO" THEN @ + shares ELSE @]

KernelInventories == {0, 400, 1500, 3000}
KernelAmounts     == {100, 300, 1000, 2500}
KernelMarket      == "m1"

\* the store with the kernel's market at inventory (qYes, qNo) and b = FineLiquidity
KernelDb(qYes, qNo) ==
  [InitialDb EXCEPT !.markets[KernelMarket].total_yes_shares = qYes,
                    !.markets[KernelMarket].total_no_shares  = qNo,
                    !.markets[KernelMarket].liquidity_pool   = FineLiquidity]

KernelInit ==
  /\ db \in {KernelDb(qYes, qNo) : qYes \in KernelInventories, qNo \in KernelInventories}
  /\ now = 0
  /\ ticks = EmptyBag
  /\ payoutLog = <<>>
  /\ last = Idle

\* quote-buy: the shares calculateSharesForAmount returns for amount
KernelQuoteBuy(positionType, amount) ==
  /\ last = Idle
  /\ last' = [op |-> "quoteBuy", err |-> OK, positionType |-> positionType, amount |-> amount,
              shares |-> calculateSharesForAmountFine(db.markets[KernelMarket], positionType, amount)]
  /\ UNCHANGED <<db, now, ticks, payoutLog>>

\* quote-sell of the quoted shares in the inventory after the buy
KernelQuoteSell ==
  /\ last.op = "quoteBuy"
  /\ last' = [last EXCEPT !.op = "quoteSell"] @@
             [proceeds |-> calculateAmountForShares(
                             AfterBuy(db.markets[KernelMarket], last.positionType, last.shares),
                             last.positionType, last.shares)]
  /\ UNCHANGED <<db, now, ticks, payoutLog>>

KernelNext ==
  \/ \E s \in Sides, a \in KernelAmounts : KernelQuoteBuy(s, a)
  \/ KernelQuoteSell

KernelSpec == KernelInit /\ [][KernelNext]_vars

(* ------------------------- the seeded markets --------------------------- *)
RECURSIVE LnRatio(_, _)
\* Math.log(num / den) * K for num, den > 0
LnRatio(num, den) ==
  IF num < den THEN 0 - LnRatio(den, num)
  ELSE IF num > 2 * den THEN Ln2 + LnRatio(num, 2 * den)
  ELSE Ln((num * K) \div den)

\* yesProbability in percent; round-to-zero stands for the float product
initializeMarketStateWithProbability(liquidity, yesProbability) ==
  LET p    == Max(1, IF yesProbability < 99 THEN yesProbability ELSE 99)
      l    == LnRatio(p, 100 - p)
      qYes == IF l >= 0 THEN (liquidity * l) \div K ELSE 0 - ((liquidity * (0 - l)) \div K)
  IN [total_yes_shares |-> qYes, total_no_shares |-> 0, liquidity_pool |-> liquidity]

\* prob50, prob65, prob35, prob70, prob45, prob55 of seedDefaultData
SeedProbabilities == {50, 65, 35, 70, 45, 55}

\* the store after the seed has inserted m1 at probability p1 and m2 at p2
SeedDb(p1, p2) ==
  LET state(m) == initializeMarketStateWithProbability(DefaultLiquidity, IF m = "m1" THEN p1 ELSE p2)
  IN [InitialDb EXCEPT
        !.markets = [m \in MarketIds |->
                       [InitialDb.markets[m] EXCEPT !.total_yes_shares = state(m).total_yes_shares,
                                                    !.total_no_shares  = state(m).total_no_shares]],
        !.price_history = [i \in 1..Len(MarketOrder) |-> PricePoint(MarketOrder[i], state(MarketOrder[i]))]]

SeedInit ==
  /\ db \in {SeedDb(p1, p2) : p1 \in SeedProbabilities, p2 \in SeedProbabilities}
  /\ now = 0
  /\ ticks = EmptyBag
  /\ payoutLog = <<>>
  /\ last = Idle

SeedAmounts == {10 * Unit, 500 * Unit}

\* trades and manual resolutions on the seeded markets
SeedNext ==
  \/ \E u \in Users, m \in MarketIds, s \in Sides, a \in SeedAmounts : Buy(u, m, s, a, 0)
  \/ \E u \in Users, m \in MarketIds, s \in Sides : Sell(u, m, s, HeldShares(u, m, s), 0)
  \/ \E m \in MarketIds, o \in Sides : ManualResolve(m, o, NULL, 0)
  \/ Return

SeedSpec == SeedInit /\ [][SeedNext]_vars

(* --------------- manual resolutions, any resolved_by ------------------- *)
\* req.body.resolved_by: omitted, a name, or the scheduler's default "auto"
ResolvedBySent == {NULL, "admin", "auto"}

\* trades and POST /resolve with any resolved_by
OverrideNext ==
  \/ \E u \in Users, m \in MarketIds, s \in Sides : Buy(u, m, s, 10 * Unit, 0)
  \/ \E m \in MarketIds, o \in Sides \cup {NULL}, by \in ResolvedBySent : ManualResolve(m, o, by, 0)
  \/ Return

OverrideSpec == Init /\ [][OverrideNext]_vars

(* --------------------------- market creation --------------------------- *)
\* POST /markets; closes_at and initial_liquidity are <<v>> for a body with
\* the field and <<>> for a body without it
postMarket(d, marketId, resolution_source, closes_at, initial_liquidity, clock) ==
  IF resolution_source = NULL \/ closes_at = <<>> THEN [err |-> ErrValidation, db |-> d]
  ELSE IF closes_at[1] <= clock THEN [err |-> ErrValidation, db |-> d]
  ELSE LET liquidity == IF initial_liquidity = <<>> THEN DefaultLiquidity ELSE initial_liquidity[1]
           row == NewMarket(resolution_source, closes_at[1], liquidity)
       IN [err |-> OK,
           db  |-> [d EXCEPT !.markets = [m \in DOMAIN d.markets \cup {marketId} |->
                                            IF m = marketId THEN row ELSE d.markets[m]],
                             !.price_history = Append(@, PricePoint(marketId, initializeMarketState(liquidity)))]]

\* the store before the second market is created
CreateDb ==
  [InitialDb EXCEPT !.markets = [m \in {"m1"} |-> InitialDb.markets[m]],
                    !.price_history = SelectSeq(@, LAMBDA t : t.market_id = "m1")]

CreateInit ==
  /\ db = CreateDb
  /\ now = 0
  /\ ticks = EmptyBag
  /\ payoutLog = <<>>
  /\ last = Idle

CreateLiquidities == {<<>>, <<50 * Unit>>, <<0>>, <<0 - 50 * Unit>>}
CreateClosesAt    == {<<>>, <<0>>, <<1>>, <<2>>}
CreateSources     == {NULL, ManualSource, UrlSource}

\* uuidv4() gives the market an id that no market has
CreateMarket(marketId, resolution_source, closes_at, initial_liquidity) ==
  LET r == postMarket(db, marketId, resolution_source, closes_at, initial_liquidity, now) IN
  /\ last = Idle
  /\ marketId \notin DOMAIN db.markets
  /\ db' = r.db
  /\ last' = [op |-> "createMarket", err |-> r.err]
  /\ UNCHANGED <<now, ticks, payoutLog>>

CreateNext ==
  \/ \E m \in MarketIds, src \in CreateSources, c \in CreateClosesAt, l \in CreateLiquidities :
       CreateMarket(m, src, c, l)
  \/ \E u \in Users, s \in Sides, a \in BuyAmounts : Buy(u, "m1", s, a, 0)
  \/ \E u \in Users, s \in Sides : Sell(u, "m1", s, HeldShares(u, "m1", s), 0)
  \/ AdvanceClock
  \/ Return

CreateSpec == CreateInit /\ [][CreateNext]_vars

(* ------------------ the routes and the engine, any input ---------------- *)
InvalidSide   == "MAYBE"
EngineAmounts == {0 - 500 * Unit, 0 - 10 * Unit, 0, 10 * Unit}

\* POST /trading/buy with any position_type and amount
RouteBuy(userId, marketId, positionType, amount) ==
  LET r == postBuy(db, userId, marketId, positionType, amount, 0) IN
  /\ last = Idle
  /\ Len(db.transactions) < MaxTrades
  /\ db' = r.db
  /\ last' = [op |-> "routeBuy", err |-> r.err, positionType |-> positionType, amount |-> amount]
  /\ UNCHANGED <<now, ticks, payoutLog>>

\* POST /trading/sell with any position_type and shares
RouteSell(userId, marketId, positionType, shares) ==
  LET r == postSell(db, userId, marketId, positionType, shares, 0) IN
  /\ last = Idle
  /\ Len(db.transactions) < MaxTrades
  /\ db' = r.db
  /\ last' = [op |-> "routeSell", err |-> r.err, positionType |-> positionType, amount |-> shares]
  /\ UNCHANGED <<now, ticks, payoutLog>>

\* a call of the exported executeBuyTrade that does not come through the route
EngineBuy(userId, marketId, positionType, amount) ==
  LET r == executeBuyTrade(db, TradeRequest(userId, marketId, positionType, amount), 0) IN
  /\ last = Idle
  /\ Len(db.transactions) < MaxTrades
  /\ db' = r.db
  /\ last' = [op |-> "engineBuy", err |-> r.err, positionType |-> positionType, amount |-> amount]
  /\ UNCHANGED <<now, ticks, payoutLog>>

\* a call of the exported executeSellTrade that does not come through the route
EngineSell(userId, marketId, positionType, shares) ==
  LET r == executeSellTrade(db, TradeRequest(userId, marketId, positionType, shares), 0) IN
  /\ last = Idle
  /\ Len(db.transactions) < MaxTrades
  /\ db' = r.db
  /\ last' = [op |-> "engineSell", err |-> r.err, positionType |-> positionType, amount |-> shares]
  /\ UNCHANGED <<now, ticks, payoutLog>>

EngineNext ==
  \/ \E u \in Users, m \in MarketIds, s \in Sides \cup {InvalidSide}, a \in EngineAmounts : RouteBuy(u, m, s, a)
  \/ \E u \in Users, m \in MarketIds, s \in Sides \cup {InvalidSide}, a \in EngineAmounts : RouteSell(u, m, s, a)
  \/ \E u \in Users, m \in MarketIds, s \in Sides, a \in EngineAmounts : EngineBuy(u, m, s, a)
  \/ \E u \in Users, m \in MarketIds, s \in Sides, a \in EngineAmounts : EngineSell(u, m, s, a)
  \/ Return

EngineSpec == Init /\ [][EngineNext]_vars

(* ---------------- the resolution service without fallback -------------- *)
\* services/resolutionService.ts as imported by routes/resolutions.ts and
\* jobs/resolver.ts: resolveMarket throws when the fetch or the extraction fails,
\* and getMarketsForResolution leaves out the markets whose source is 'manual'
ErrFetchFailed == "Failed to fetch data"
ErrNoValue     == "Could not extract value at path"

\* what the fetch and the extraction can come to: the condition met or not met,
\* success = false (error or timeout), no value at criteria.path
resolutionService_FetchResults == FetchResults \cup {"no_value"}

\* resolveMarket up to its first await: the whole call when an outcome is supplied,
\* else up to await fetchFromSource, whatever the source
resolutionService_resolveMarket(d, marketId, manualOutcome, resolvedBy, failAt) ==
  IF marketId \notin DOMAIN d.markets
    THEN [err |-> ErrMarketNotFound, db |-> d, payouts |-> <<>>, awaiting |-> FALSE]
  ELSE LET market == d.markets[marketId] IN
    IF market.status = "resolved"
      THEN [err |-> ErrAlreadyResolved, db |-> d, payouts |-> <<>>, awaiting |-> FALSE]
    ELSE IF manualOutcome # NULL
      THEN executeResolution(d, marketId, manualOutcome, market, "manual", resolvedBy, failAt)
    ELSE [err |-> OK, db |-> d, payouts |-> <<>>, awaiting |-> TRUE]

\* resolveMarket from the return of fetchFromSource on
resolutionService_resolveMarketAfterFetch(d, marketId, market, fetched, resolvedBy, failAt) ==
  IF fetched = "failed"
    THEN [err |-> ErrFetchFailed, db |-> d, payouts |-> <<>>, awaiting |-> FALSE]
  ELSE IF fetched = "no_value"
    THEN [err |-> ErrNoValue, db |-> d, payouts |-> <<>>, awaiting |-> FALSE]
  ELSE executeResolution(d, marketId, IF fetched = "met" THEN "YES" ELSE "NO", market,
                         "fetched", resolvedBy, failAt)

\* POST /resolutions/:marketId/resolve
resolutionService_postResolve(d, marketId, outcome, resolved_by, failAt) ==
  IF outcome \notin Sides THEN [err |-> ErrValidation, db |-> d, payouts |-> <<>>, awaiting |-> FALSE]
  ELSE IF marketId \notin DOMAIN d.markets
    THEN [err |-> ErrMarketNotFound, db |-> d, payouts |-> <<>>, awaiting |-> FALSE]
  ELSE IF d.markets[marketId].status = "resolved"
    THEN [err |-> ErrAlreadyResolved, db |-> d, payouts |-> <<>>, awaiting |-> FALSE]
  ELSE resolutionService_resolveMarket(d, marketId, outcome,
                                       IF resolved_by = NULL THEN "manual" ELSE resolved_by, failAt)

resolutionService_getMarketsForResolution(d, clock) ==
  SelectSeq(MarketOrder, LAMBDA m : /\ m \in DOMAIN d.markets
                                    /\ d.markets[m].status = "open"
                                    /\ d.markets[m].closes_at <= clock
                                    /\ d.markets[m].resolution_source # ManualSource)

RECURSIVE resolutionService_resolveDueFrom(_, _, _, _, _, _)
\* the for loop of checkAndResolveMarkets from due[i] on, until it suspends at a
\* fetch or runs out of markets
resolutionService_resolveDueFrom(d, payouts, err, due, i, failAt) ==
  IF i > Len(due)
    THEN [db |-> d, payouts |-> payouts, err |-> err, tick |-> Finished]
  ELSE LET r == resolutionService_resolveMarket(d, due[i], NULL, "auto", failAt) IN
    IF r.awaiting
      THEN [db |-> d, payouts |-> payouts, err |-> err,
            tick |-> Suspended(due, i, d.markets[due[i]])]
    ELSE IF r.err = OK
      THEN resolutionService_resolveDueFrom(r.db, payouts \o r.payouts, err, due, i + 1, 0)
    ELSE resolutionService_resolveDueFrom(markClosed(r.db, due[i]), payouts, r.err, due, i + 1, 0)

\* checkAndResolveMarkets up to its first suspension
resolutionService_checkAndResolveMarkets(d, clock, failAt) ==
  resolutionService_resolveDueFrom(d, <<>>, OK, resolutionService_getMarketsForResolution(d, clock),
                                   1, failAt)

\* checkAndResolveMarkets from the return of the pending fetch to the next suspension
resolutionService_resumeCheckAndResolve(d, tick, fetched, failAt) ==
  LET marketId == tick.due[tick.i]
      r == resolutionService_resolveMarketAfterFetch(d, marketId, tick.market, fetched, "auto", failAt)
  IN IF r.err = OK
       THEN resolutionService_resolveDueFrom(r.db, r.payouts, OK, tick.due, tick.i + 1, 0)
       ELSE resolutionService_resolveDueFrom(markClosed(r.db, marketId), <<>>, r.err,
                                             tick.due, tick.i + 1, 0)

resolutionService_ManualResolve(marketId, outcome, resolved_by, failAt) ==
  LET r == resolutionService_postResolve(db, marketId, outcome, resolved_by, failAt) IN
  /\ last = Idle
  /\ db' = r.db
  /\ payoutLog' = payoutLog \o r.payouts
  /\ last' = [op |-> "resolve", err |-> r.err]
  /\ UNCHANGED <<now, ticks>>

\* cron fires: a new tick runs until its first fetch
resolutionService_TickStart(failAt) ==
  LET r == resolutionService_checkAndResolveMarkets(db, now, failAt) IN
  /\ last = Idle
  /\ BagCardinality(ticks) < MaxTicks
  /\ db' = r.db
  /\ payoutLog' = payoutLog \o r.payouts
  /\ ticks' = ticks (+) SetToBag(r.tick)
  /\ last' = [op |-> "tick", err |-> r.err]
  /\ UNCHANGED now

\* the pending fetch of a suspended tick returns
resolutionService_FetchReturn(tick, fetched, failAt) ==
  LET r == resolutionService_resumeCheckAndResolve(db, tick, fetched, failAt) IN
  /\ last = Idle
  /\ BagIn(tick, ticks)
  /\ db' = r.db
  /\ payoutLog' = payoutLog \o r.payouts
  /\ ticks' = (ticks (-) SetToBag({tick})) (+) SetToBag(r.tick)
  /\ last' = [op |-> "tick", err |-> r.err]
  /\ UNCHANGED now

resolutionService_Next ==
  \/ \E u \in Users, m \in MarketIds, s \in Sides, a \in BuyAmounts, f \in FailPoints : Buy(u, m, s, a, f)
  \/ \E u \in Users, m \in MarketIds, s \in Sides, f \in FailPoints :
       \E a \in SellAmounts(u, m, s) : Sell(u, m, s, a, f)
  \/ \E m \in MarketIds, o \in Sides \cup {NULL}, by \in ResolvedByInputs, f \in FailPoints :
       resolutionService_ManualResolve(m, o, by, f)
  \/ \E f \in FailPoints : resolutionService_TickStart(f)
  \/ \E tick \in BagToSet(ticks), r \in resolutionService_FetchResults, f \in FailPoints :
       resolutionService_FetchReturn(tick, r, f)
  \/ AdvanceClock
  \/ Return

\* the same system with the resolution service that has no fallback
resolutionService_Spec == Init /\ [][resolutionService_Next]_vars

(* ------------------------------ properties ----------------------------- *)
RECURSIVE SumFn(_, _)
SumFn(f, S) ==
  IF S = {} THEN 0
  ELSE LET x == CHOOSE y \in S : TRUE IN f[x] + SumFn(f, S \ {x})

SumSet(S, F(_)) == SumFn([x \in S |-> F(x)], S)

Shares(p) == p.shares
\* the shares userId holds in d on positionType of marketId (0 without a row)
SideShares(d, userId, marketId, positionType) ==
  SumSet(PositionRows(d, userId, marketId, positionType), Shares)

StartBalance(userId) == IF userId = SimTrader THEN SimBalance ELSE RegisterBalance

\* cash userId has paid for buys less cash received from sells, by the transaction rows
TradeOutflow(userId) ==
  LET Flow(i) == IF db.transactions[i].user_id # userId THEN 0
                 ELSE IF db.transactions[i].type = "BUY" THEN db.transactions[i].total_cost
                 ELSE 0 - db.transactions[i].total_cost
  IN SumSet(DOMAIN db.transactions, Flow)

\* what userId's balance holds beyond the starting balance and the trades
Credited(userId) == db.users[userId] - StartBalance(userId) + TradeOutflow(userId)

PayoutEntries(userId, marketId) ==
  {i \in DOMAIN payoutLog : payoutLog[i].userId = userId /\ payoutLog[i].market_id = marketId}

\* the shares userId holds on the recorded outcome of marketId (0 while there is none)
WinningShares(userId, marketId) ==
  LET rows == {r \in db.resolutions : r.market_id = marketId}
      Won(r) == SideShares(db, userId, marketId, r.outcome)
  IN SumSet(rows, Won)

AllowedStatusChanges == {<<"open", "closed">>, <<"open", "resolved">>, <<"closed", "resolved">>}

\* C1: in every step a market's status stays as it is or changes open->closed,
\* open->resolved or closed->resolved; in particular resolved never changes
C1_StatusMonotone ==
  [][\A m \in MarketIds :
        \/ db'.markets[m].status = db.markets[m].status
        \/ <<db.markets[m].status, db'.markets[m].status>> \in AllowedStatusChanges]_vars

\* C2: whatever the interleaving of ticks, fetch returns and manual resolves, a user
\* is paid out at most once per market, the balance holds exactly the logged payouts
\* beyond the trades, and the total never exceeds the winning-side shares held
C2_CreditedAtMostOnce ==
  \A u \in DOMAIN db.users :
    /\ \A m \in MarketIds : Cardinality(PayoutEntries(u, m)) <= 1
    /\ LET Paid(m) == LET Amount(i) == payoutLog[i].amount IN SumSet(PayoutEntries(u, m), Amount)
           Won(m)  == WinningShares(u, m)
       IN /\ Credited(u) = SumSet(MarketIds, Paid)
          /\ Credited(u) <= SumSet(MarketIds, Won)

\* a resumed tick lost the race for a market whose winners have been paid
C2_Witness ==
  /\ last = [op |-> "tick", err |-> ErrUniqueResolution]
  /\ \E i \in DOMAIN payoutLog :
       \E r \in db.resolutions : r.market_id = payoutLog[i].market_id /\ r.source_url = UrlSource

\* C3: on a market whose status is resolved, the resolve call and the resolve route
\* end with the already-resolved error and leave the store as it is, with an
\* outcome or without
C3_ResolveOnResolved ==
  \A m \in MarketIds : db.markets[m].status = "resolved" =>
    /\ \A o \in Sides \cup {NULL}, by \in {"auto", "manual"}, f \in FailPoints :
         resolveMarket(db, m, o, by, f) =
           [err |-> ErrAlreadyResolved, db |-> db, payouts |-> <<>>, awaiting |-> FALSE]
    /\ \A o \in Sides, f \in FailPoints :
         /\ postResolve(db, m, o, NULL, f).err = ErrAlreadyResolved
         /\ postResolve(db, m, o, NULL, f).db = db
         /\ postResolve(db, m, o, NULL, f).payouts = <<>>

\* a manual resolve has just been refused on a resolved market
C3_Witness ==
  /\ last = [op |-> "resolve", err |-> ErrAlreadyResolved]
  /\ \E m \in MarketIds : db.markets[m].status = "resolved"

MaxResolutionWrites == 2 + Len(UserOrder)

\* C4: the resolution transaction, run from any reachable store with any of its
\* writes failing or none, either inserts the row, sets status and outcome and
\* credits every winner, or leaves the store as it was
C4_ResolutionAtomic ==
  \A m \in MarketIds, o \in Sides, f \in 0..MaxResolutionWrites :
    LET r == executeResolution(db, m, o, db.markets[m], "manual", "manual", f) IN
      IF r.err = OK
        THEN /\ \E row \in r.db.resolutions \ db.resolutions : row.market_id = m /\ row.outcome = o
             /\ r.db.markets[m].status = "resolved"
             /\ r.db.markets[m].outcome = o
             /\ \A u \in DOMAIN db.users :
                  r.db.users[u] = db.users[u] + SideShares(db, u, m, o)
        ELSE r.db = db

\* a manual resolve has just failed on the one-row-per-market constraint while
\* positions were waiting to be paid
C4_Witness ==
  /\ last = [op |-> "resolve", err |-> ErrUniqueResolution]
  /\ db.positions # {}

\* C5: a step that commits resolutions raises every balance by exactly the shares
\* held on the recorded outcome before the step and changes no position row
C5_PayoutExact ==
  [][db'.resolutions # db.resolutions =>
       /\ db'.positions = db.positions
       /\ DOMAIN db'.users = DOMAIN db.users
       /\ \A u \in DOMAIN db.users :
            LET Won(r) == SideShares(db, u, r.market_id, r.outcome)
            IN db'.users[u] = db.users[u] + SumSet(db'.resolutions \ db.resolutions, Won)]_vars

\* a resolve has just committed on a market with a winner and a holder of the
\* losing side only
C5_Witness ==
  /\ last.op \in {"resolve", "tick"}
  /\ last.err = OK
  /\ payoutLog # <<>>
  /\ LET paid == payoutLog[Len(payoutLog)] IN
       \E r \in db.resolutions, p \in db.positions :
         /\ r.market_id = paid.market_id
         /\ p.market_id = paid.market_id
         /\ p.position_type # r.outcome
         /\ SideShares(db, p.user_id, p.market_id, r.outcome) = 0

TradeOps == {"buy", "sell", "simulate"}

\* C6: a buy, a sell or a simulated trade that ends with an error leaves every
\* balance, the market inventory, the positions, the transaction log and the price
\* history as they were before it
C6_FailedTradeNoChange ==
  [][(last.op = "idle" /\ last'.op \in TradeOps /\ last'.err # OK) =>
       /\ db'.markets = db.markets
       /\ db'.positions = db.positions
       /\ db'.transactions = db.transactions
       /\ db'.price_history = db.price_history
       /\ \A u \in DOMAIN db.users : db'.users[u] = db.users[u]]_vars

\* C7: every balance is >= 0 in every reachable store
C7_BalanceNonNegative ==
  \A u \in DOMAIN db.users : db.users[u] >= 0

\* a user has spent the whole balance on a committed buy
C7_Witness ==
  \E i \in DOMAIN db.transactions :
    /\ db.transactions[i].type = "BUY"
    /\ db.transactions[i].total_cost = StartBalance(db.transactions[i].user_id)
    /\ db.users[db.transactions[i].user_id] = 0

\* C8: on an open market a buy for more than the buyer's balance ends with the
\* insufficient-balance error and leaves the store as it is
C8_InsufficientFunds ==
  \A u \in DOMAIN db.users, m \in MarketIds, s \in Sides, f \in FailPoints :
    db.markets[m].status = "open" =>
      \A a \in {db.users[u] + 1, db.users[u] + 10 * Unit} :
        /\ executeBuyTrade(db, TradeRequest(u, m, s, a), f) = [err |-> ErrInsufficientBal, db |-> db]
        /\ postBuy(db, u, m, s, a, f) = [err |-> ErrInsufficientBal, db |-> db]

\* a buy has just been refused for lack of funds
C8_Witness ==
  /\ last = [op |-> "buy", err |-> ErrInsufficientBal]
  /\ \E u \in Users : db.users[u] < RegisterBalance

\* C9: on an open market a sell of more shares than the seller holds on that side,
\* or with no position row at all, ends with the insufficient-shares error and
\* leaves the store as it is; a sell of exactly the held shares commits
C9_InsufficientShares ==
  \A u \in DOMAIN db.users, m \in MarketIds, s \in Sides :
    db.markets[m].status = "open" =>
      /\ \A a \in {SideShares(db, u, m, s) + 1, SideShares(db, u, m, s) + Unit}, f \in FailPoints :
           /\ executeSellTrade(db, TradeRequest(u, m, s, a), f) = [err |-> ErrInsufficientShr, db |-> db]
           /\ postSell(db, u, m, s, a, f) = [err |-> ErrInsufficientShr, db |-> db]
      /\ SideShares(db, u, m, s) > 0 =>
           LET r == executeSellTrade(db, TradeRequest(u, m, s, SideShares(db, u, m, s)), 0)
           IN /\ r.err = OK
              /\ Len(r.db.transactions) = Len(db.transactions) + 1
              /\ PositionRows(r.db, u, m, s) = {}

\* a sell has just been refused to a user who holds shares, but on another side or
\* market than the one asked for, or fewer than asked for
C9_Witness ==
  /\ last = [op |-> "sell", err |-> ErrInsufficientShr]
  /\ \E p \in db.positions : p.user_id \in Users

\* a buy, a sell, a quote and a simulated trade on marketId are all refused
Refused(marketId) ==
  \A s \in Sides, f \in FailPoints :
    /\ \A u \in DOMAIN db.users \cup {SimTrader} :
         /\ executeBuyTrade(db, TradeRequest(u, marketId, s, 10 * Unit), f)
              = [err |-> ErrMarketNotOpen, db |-> db]
         /\ executeSellTrade(db, TradeRequest(u, marketId, s, SideShares(db, u, marketId, s)), f)
              = [err |-> ErrMarketNotOpen, db |-> db]
    /\ \A act \in {"BUY", "SELL"} :
         LET q == getQuote(db, marketId, s, 10 * Unit, act)
         IN q.err = ErrMarketNotOpen /\ q.db = db
    /\ \A isBuy \in BOOLEAN, a \in SimAmounts, pct \in SimPercents :
         LET r == simulateTrade(db, marketId, isBuy, s, a, pct, f)
         IN r.db = db /\ ~r.traded

\* marketId's inventory, positions, transaction rows and price points
TradeRows(d, marketId) ==
  [inventory |-> <<d.markets[marketId].total_yes_shares, d.markets[marketId].total_no_shares>>,
   positions |-> {p \in d.positions : p.market_id = marketId},
   transactions  |-> SelectSeq(d.transactions, LAMBDA t : t.market_id = marketId),
   price_history |-> SelectSeq(d.price_history, LAMBDA t : t.market_id = marketId)]

\* C10: while a market is closed or resolved every buy, sell, quote and simulated
\* trade on it is refused with the market-not-open error and changes nothing, and a
\* step changes a market's inventory, positions, transactions or price points only
\* when the market is open
C10_MarketNotOpen ==
  /\ [](\A m \in MarketIds : db.markets[m].status # "open" => Refused(m))
  /\ [][\A m \in MarketIds :
          TradeRows(db', m) # TradeRows(db, m) => db.markets[m].status = "open"]_vars

\* a buy has just been refused on a market that is closed or resolved
C10_Witness ==
  /\ last = [op |-> "buy", err |-> ErrMarketNotOpen]
  /\ \E m \in MarketIds : db.markets[m].status \in {"closed", "resolved"}

OtherSide(positionType) == IF positionType = "YES" THEN "NO" ELSE "YES"

\* the inventory of marketId on positionType
Inventory(d, marketId, positionType) ==
  IF positionType = "YES" THEN d.markets[marketId].total_yes_shares
  ELSE d.markets[marketId].total_no_shares

\* the position rows of d other than those of (userId, marketId, positionType)
OtherPositions(d, userId, marketId, positionType) ==
  d.positions \ PositionRows(d, userId, marketId, positionType)

\* what a trade of userId on positionType of marketId leaves alone from d to e: the
\* other side's inventory, the liquidity parameter, the status, the other users'
\* balances and the other positions
TradeFrame(d, e, userId, marketId, positionType) ==
  /\ Inventory(e, marketId, OtherSide(positionType)) = Inventory(d, marketId, OtherSide(positionType))
  /\ e.markets[marketId].liquidity_pool = d.markets[marketId].liquidity_pool
  /\ e.markets[marketId].status = d.markets[marketId].status
  /\ DOMAIN e.users = DOMAIN d.users
  /\ \A v \in DOMAIN d.users \ {userId} : e.users[v] = d.users[v]
  /\ OtherPositions(e, userId, marketId, positionType) = OtherPositions(d, userId, marketId, positionType)

\* C11: a step in which a buy commits is the buy of some amount a on some side S of
\* some market by some user u, and it lowers u's balance by exactly a, raises the
\* market's q_S by exactly the shares quoted for a before the step, and leaves the
\* other side's q, b, the status, the other users' balances and every position
\* other than (u, market, S) as they were
C11_BuyFrame ==
  [][(last = Idle /\ last'.op = "buy" /\ last'.err = OK) =>
       \E u \in Users, m \in MarketIds, S \in Sides, a \in BuyAmounts :
         /\ db' = postBuy(db, u, m, S, a, 0).db
         /\ db'.users[u] = db.users[u] - a
         /\ Inventory(db', m, S) = Inventory(db, m, S) + getQuote(db, m, S, a, "BUY").shares
         /\ TradeFrame(db, db', u, m, S)]_vars

\* a buy has just committed while another user holds a position and the buyer
\* holds a second one
C11_Witness ==
  /\ last = [op |-> "buy", err |-> OK]
  /\ \E p \in db.positions : p.user_id = SimTrader
  /\ \E p \in db.positions : p.user_id \in Users /\ p.shares > 0

\* C12: a step in which a sell commits is the sell of some s shares on some side S of
\* some market by some user u, and it raises u's balance by exactly the proceeds
\* quoted for s before the step (which are >= 0), lowers the market's q_S by exactly
\* s, lowers u's (market, S) position by exactly s, and leaves the other side's q, b,
\* the status, the other users' balances and every other position as they were
C12_SellFrame ==
  [][(last = Idle /\ last'.op = "sell" /\ last'.err = OK) =>
       \E u \in Users, m \in MarketIds, S \in Sides :
         \E s \in SellAmounts(u, m, S) :
           /\ db' = postSell(db, u, m, S, s, 0).db
           /\ getQuote(db, m, S, s, "SELL").totalCost >= 0
           /\ db'.users[u] = db.users[u] + getQuote(db, m, S, s, "SELL").totalCost
           /\ Inventory(db', m, S) = Inventory(db, m, S) - s
           /\ SideShares(db', u, m, S) = SideShares(db, u, m, S) - s
           /\ TradeFrame(db, db', u, m, S)]_vars

\* C13: in every reachable store, for every market and side, q_side less its value at
\* the market's creation equals the sum of the shares of the position rows of that
\* market and side, and no position row has negative shares, also after a sell
\* that deleted a row whose remainder was within the dust threshold
C13_SharesMatchPositions ==
  /\ \A m \in MarketIds, S \in Sides :
       Inventory(db, m, S) - Inventory(InitialDb, m, S)
         = SumSet({p \in db.positions : p.market_id = m /\ p.position_type = S}, Shares)
  /\ \A p \in db.positions : p.shares >= 0

\* C14: every reachable store has at most one position row per (user, market, side),
\* and a buy that commits for a user who already holds that side leaves exactly one
\* row for the key, holding the old shares plus the shares bought
C14_OneRowPerKey ==
  /\ [](\A u \in DOMAIN db.users, m \in MarketIds, S \in Sides :
          Cardinality(PositionRows(db, u, m, S)) <= 1)
  /\ [][(last = Idle /\ last'.op = "buy" /\ last'.err = OK) =>
          LET t == db'.transactions[Len(db'.transactions)] IN
            PositionRows(db, t.user_id, t.market_id, t.position_type) # {} =>
              /\ Cardinality(PositionRows(db', t.user_id, t.market_id, t.position_type)) = 1
              /\ SideShares(db', t.user_id, t.market_id, t.position_type)
                   = SideShares(db, t.user_id, t.market_id, t.position_type) + t.shares]_vars

\* a user has just bought a side for the second time
C14_Witness ==
  /\ last = [op |-> "buy", err |-> OK]
  /\ \E i, j \in DOMAIN db.transactions :
       /\ i < j
       /\ db.transactions[i].type = "BUY" /\ db.transactions[j].type = "BUY"
       /\ db.transactions[i].user_id = db.transactions[j].user_id
       /\ db.transactions[i].market_id = db.transactions[j].market_id
       /\ db.transactions[i].position_type = db.transactions[j].position_type
       /\ Cardinality(PositionRows(db, db.transactions[i].user_id, db.transactions[i].market_id,
                                    db.transactions[i].position_type)) = 1

\* the errors resolveMarket raises for a fetch that failed or gave no value
FetchErrors == {ErrFetchFailed, ErrNoValue}

\* C15: a step in which the fetch of a suspended tick returns for a market with a URL
\* source never ends with the error of a failed fetch or of a missing value, and a
\* resolution it commits with the fallback proof is that market's, sets it to
\* resolved with a probability outcome and pays every holder of that outcome
C15_FetchFailureFallsBack ==
  [][\A tick \in BagToSet(ticks) : CopiesIn(tick, ticks') < CopiesIn(tick, ticks) =>
       LET m == tick.due[tick.i] IN
         /\ last'.err \notin FetchErrors
         /\ \A row \in db'.resolutions \ db.resolutions : row.source_response = "fallback" =>
              /\ row.market_id = m
              /\ db'.markets[m].status = "resolved"
              /\ row.outcome \in {ProbabilityOutcome(tick.market), ProbabilityOutcome(db.markets[m])}
              /\ \A u \in DOMAIN db.users :
                   db'.users[u] = db.users[u] + SideShares(db, u, m, row.outcome)]_vars

\* C16: a resolution committed with the fallback proof records YES iff p_yes of the
\* market's inventory in the store at the commit is > 0.5, also when trades
\* committed on the market while the resolver was suspended at the fetch
C16_FallbackUsesCurrentPrice ==
  [][\A row \in db'.resolutions \ db.resolutions : row.source_response = "fallback" =>
       row.outcome = ProbabilityOutcome(db.markets[row.market_id])]_vars

\* the ticks suspended in resolveMarket(marketId)
TicksResolving(marketId) ==
  {tick \in BagToSet(ticks) : tick.due[tick.i] = marketId}

\* C17: at most one scheduler tick is running at any time (a new tick does not start
\* while an earlier one is suspended at a fetch), and no market is being resolved
\* by two ticks at once
C17_TicksDoNotOverlap ==
  /\ BagCardinality(ticks) <= 1
  /\ \A m \in MarketIds :
       SumSet(TicksResolving(m), LAMBDA tick : CopiesIn(tick, ticks)) <= 1

Range(seq) == {seq[k] : k \in DOMAIN seq}

\* r is what a tick returns from store d after working on due[from..]: every market
\* up to the one it suspends on (all of them when it finishes) has been attempted
\* and is resolved, or closed when its resolve threw; none of them is left open
\* and none is selected by a later tick
TickWentOn(d, r, due, from) ==
  LET upto == IF r.tick = Finished THEN Len(due) ELSE (CHOOSE t \in r.tick : TRUE).i - 1 IN
  /\ r.tick # Finished => /\ (CHOOSE t \in r.tick : TRUE).due = due
                           /\ (CHOOSE t \in r.tick : TRUE).i \in from..Len(due)
  /\ \A k \in from..upto :
       /\ r.db.markets[due[k]].status \in {"resolved", "closed"}
       /\ r.db.markets[due[k]].status = "resolved" =>
            \E row \in r.db.resolutions : row.market_id = due[k]
       /\ \A n \in 0..MaxNow : due[k] \notin Range(getMarketsForResolution(r.db, n))
  /\ r.err # OK => \E k \in from..upto : r.db.markets[due[k]].status = "closed"

OpenAndPastClose == {m \in MarketIds : db.markets[m].status = "open" /\ db.markets[m].closes_at <= now}

\* C20: in every reachable store and at every clock value the markets a tick treats
\* as due, by either copy of getMarketsForResolution, are exactly the markets with
\* status = open and closes_at <= now, whatever their resolution source
C20_DueSet ==
  /\ Range(getMarketsForResolution(db, now)) = OpenAndPastClose
  /\ Range(resolutionService_getMarketsForResolution(db, now)) = OpenAndPastClose

\* every holder of shares on marketId's recorded outcome has a payout of those
\* shares in the log
WinnersPaid(marketId) ==
  \A p \in db.positions :
    (p.market_id = marketId /\ p.position_type = db.markets[marketId].outcome) =>
      \E i \in PayoutEntries(p.user_id, marketId) : payoutLog[i].amount = p.shares

CostIncrement(state, positionType, shares) ==
  lmsrCost(AfterBuy(state, positionType, shares).total_yes_shares,
           AfterBuy(state, positionType, shares).total_no_shares, state.liquidity_pool)
    - lmsrCost(state.total_yes_shares, state.total_no_shares, state.liquidity_pool)

\* C21: whatever the inventory, the side and the amount, the proceeds of selling
\* the quoted shares back in the inventory after the buy are at most the amount
C21_RoundTrip ==
  last.op = "quoteSell" => last.proceeds <= last.amount

\* C22: whatever the inventory, the side (also one priced below 0.1) and the
\* amount, quote-buy returns shares >= 0 whose cost increment is within the
\* tolerance of the amount
C22_QuoteBuyMeetsAmount ==
  last.op = "quoteBuy" =>
    /\ last.shares >= 0
    /\ Abs(CostIncrement(db.markets[KernelMarket], last.positionType, last.shares) - last.amount)
         < FineTolerance

\* the cash and the shares of open markets that the users hold, shares at 1 each
HeldValue ==
  LET Balance(u) == db.users[u]
      Held(u) == SumSet({m \in MarketIds : db.markets[m].status = "open"},
                        LAMBDA m : SideShares(db, u, m, "YES") + SideShares(db, u, m, "NO"))
  IN SumSet(DOMAIN db.users, Balance) + SumSet(DOMAIN db.users, Held)

\* the cash the users started with plus b * ln 2 of every market, rounded up
CashBound ==
  LET Subsidy(m) == (db.markets[m].liquidity_pool * Ln2) \div K + 1
  IN SumSet(DOMAIN db.users, StartBalance) + SumSet(MarketIds, Subsidy)

\* C23: the balances plus the YES and NO shares held in open markets never
\* exceed the initial cash supply plus the sum over the markets of b * ln 2
C23_CashConservation ==
  HeldValue <= CashBound

\* C24: a buy with amount <= 0, a sell with shares <= 0 and a trade on a side
\* other than YES and NO end in a validation error and leave the store as it
\* was, through the routes and through the engine's operations alike
C24_InvalidTradeRejected ==
  [][(/\ last = Idle
      /\ last'.op \in {"routeBuy", "routeSell", "engineBuy", "engineSell"}
      /\ (last'.amount <= 0 \/ last'.positionType \notin Sides))
       => (last'.err = ErrValidation /\ db' = db)]_vars

\* C25: a step of a quote request, accepted or turned down, leaves balances,
\* inventories, positions, transactions, price history and resolutions as they were
C25_QuoteFrame ==
  [][(last = Idle /\ last'.op = "quote") => (db' = db /\ payoutLog' = payoutLog)]_vars

\* a quote has just been answered on a store that holds trades
C25_Witness ==
  /\ last = [op |-> "quote", err |-> OK]
  /\ db.transactions # <<>>
  /\ db.positions # {}

\* the transaction rows and the price points of marketId in d
TransactionRows(d, marketId) == TradeRows(d, marketId).transactions
PricePoints(d, marketId) == TradeRows(d, marketId).price_history
\* the price points of marketId written at its creation
CreationPoints(marketId) == Len(PricePoints(InitialDb, marketId))

IsPrefix(s, t) == Len(s) <= Len(t) /\ SubSeq(t, 1, Len(s)) = s

\* C26: between operations every market has as many price points added since
\* its creation as transaction rows, and the rows and points already written
\* are never changed or removed (both tables only grow at the end)
C26_TradeLogAndPrices ==
  /\ [](\A m \in MarketIds :
          Len(PricePoints(db, m)) - CreationPoints(m) = Len(TransactionRows(db, m)))
  /\ [][/\ IsPrefix(db.transactions, db'.transactions)
        /\ IsPrefix(db.price_history, db'.price_history)]_vars

\* the resolution rows that a step adds
NewResolutions == db'.resolutions \ db.resolutions

\* C27: a resolution of a market with source "manual", made without a supplied
\* outcome, is made without a fetch (no tick ever waits on such a market and the
\* row is the probability-based one), and its outcome is YES iff p_yes > 0.5
\* before the step, which is iff q_yes > q_no; at p_yes = 0.5 it is NO
C27_ManualByProbability ==
  /\ [](\A t \in BagToSet(ticks) : db.markets[t.due[t.i]].resolution_source # ManualSource)
  /\ [][\A r \in NewResolutions :
          (r.source_url = ManualSource /\ r.source_response # "manual") =>
            /\ r.source_response = "probability_based"
            /\ r.outcome \in Sides
            /\ r.outcome = "YES" <=> 2 * getYesPrice(db.markets[r.market_id]) > K
            /\ r.outcome = "YES" <=> Inventory(db, r.market_id, "YES") > Inventory(db, r.market_id, "NO")
            /\ db'.markets[r.market_id].outcome = r.outcome]_vars

\* a market with source "manual" that stood at equal inventories after trades
\* has been resolved NO without a supplied outcome
C27_Witness ==
  \E r \in db.resolutions :
    /\ r.source_url = ManualSource
    /\ r.source_response = "probability_based"
    /\ r.outcome = "NO"
    /\ Inventory(db, r.market_id, "YES") = Inventory(db, r.market_id, "NO")
    /\ \E i \in DOMAIN db.transactions : db.transactions[i].market_id = r.market_id

\* C28: on every market that is not resolved, whatever its source and price,
\* POST /resolve with outcome o (no write failing) does not wait for a fetch,
\* records o in a resolution row and on the market, and pays every holder of
\* side o the shares held
C28_SuppliedOutcomeRecorded ==
  \A m \in MarketIds, o \in Sides :
    (last = Idle /\ db.markets[m].status # "resolved") =>
      LET r == postResolve(db, m, o, NULL, 0)
      IN /\ r.err = OK
         /\ ~r.awaiting
         /\ \E row \in r.db.resolutions \ db.resolutions :
              row.market_id = m /\ row.outcome = o /\ row.source_response = "manual"
         /\ r.db.markets[m].status = "resolved"
         /\ r.db.markets[m].outcome = o
         /\ \A u \in DOMAIN db.users : r.db.users[u] = db.users[u] + SideShares(db, u, m, o)

\* the row a committed sell has just appended to the transactions
CommittedSell(t) ==
  /\ last = Idle
  /\ last'.op \in {"sell", "simulate"}
  /\ last'.err = OK
  /\ db'.transactions = Append(db.transactions, t)
  /\ t.type = "SELL"

\* C29: after a committed sell of s of the held shares, the seller's row is gone
\* iff held - s is at most the dust threshold; otherwise it holds held - s shares
\* and the avg_price it had before the sell
C29_SellPositionRow ==
  [][\A i \in DOMAIN db'.transactions :
       CommittedSell(db'.transactions[i]) =>
         LET t      == db'.transactions[i]
             before == getPosition(db, t.user_id, t.market_id, t.position_type)
             after  == getPosition(db', t.user_id, t.market_id, t.position_type)
         IN /\ before # {}
            /\ after = {} <=> Row(before).shares - t.shares <= DustThreshold
            /\ after # {} => /\ Row(after).shares = Row(before).shares - t.shares
                             /\ Row(after).avg_price = Row(before).avg_price]_vars

\* a sell that left exactly the dust threshold has just committed and the row is gone
C29_Witness ==
  /\ last = [op |-> "sell", err |-> OK]
  /\ Len(db.transactions) = 2
  /\ db.transactions[1].type = "BUY"
  /\ db.transactions[2].type = "SELL"
  /\ db.transactions[2].user_id = db.transactions[1].user_id
  /\ db.transactions[2].market_id = db.transactions[1].market_id
  /\ db.transactions[2].position_type = db.transactions[1].position_type
  /\ db.transactions[1].shares - db.transactions[2].shares = DustThreshold
  /\ getPosition(db, db.transactions[2].user_id, db.transactions[2].market_id,
                 db.transactions[2].position_type) = {}

\* the ticks that a step has suspended at a fetch
NewlySuspended == {t \in BagToSet(ticks') : CopiesIn(t, ticks') > CopiesIn(t, ticks)}

\* C30: a step in which a resolve call starts and stops at its fetch writes
\* nothing for its market: the market row, its positions, transaction rows,
\* price points and resolution rows are those from before the step (and when it
\* is the first call of its tick, the whole store is); the call's writes are
\* made by the one step that follows the return of the fetch
C30_NoWriteBeforeFetch ==
  [][\A t \in NewlySuspended :
       LET m == t.due[t.i]
       IN /\ db'.markets[m] = db.markets[m]
          /\ TradeRows(db', m) = TradeRows(db, m)
          /\ {r \in db'.resolutions : r.market_id = m} = {r \in db.resolutions : r.market_id = m}
          /\ t.market = db.markets[m]
          /\ t.i = 1 => (db' = db /\ payoutLog' = payoutLog)]_vars

\* a buy on a market has committed while a resolve call of that market waits for its fetch
C30_Witness ==
  /\ last = [op |-> "buy", err |-> OK]
  /\ \E t \in BagToSet(ticks) :
       /\ db.markets[t.due[t.i]].status = "open"
       /\ db.markets[t.due[t.i]] # t.market
       /\ \E i \in DOMAIN db.transactions : db.transactions[i].market_id = t.due[t.i]

\* marketId is closed and no resolution of it is recorded
ClosedUnresolved(marketId) ==
  /\ db.markets[marketId].status = "closed"
  /\ ~\E x \in db.resolutions : x.market_id = marketId

\* C31: a closed market stays closed or becomes resolved in every step, and on
\* a closed market without a resolution row POST /resolve with outcome o (no
\* write failing) inserts the row, sets the status to resolved and pays every
\* holder of side o the shares held
C31_ClosedToResolved ==
  /\ [][\A m \in MarketIds :
          db.markets[m].status = "closed" => db'.markets[m].status \in {"closed", "resolved"}]_vars
  /\ [](\A m \in MarketIds, o \in Sides :
          (last = Idle /\ ClosedUnresolved(m)) =>
            LET r == postResolve(db, m, o, NULL, 0)
            IN /\ r.err = OK
               /\ r.db.resolutions = db.resolutions \cup
                    {[market_id |-> m, outcome |-> o, source_url |-> db.markets[m].resolution_source,
                      source_response |-> "manual", resolved_by |-> "manual"]}
               /\ r.db.markets[m].status = "resolved"
               /\ r.db.markets[m].outcome = o
               /\ \A u \in DOMAIN db.users :
                    r.db.users[u] = db.users[u] + SideShares(db, u, m, o))

\* a closed market without a resolution row whose shares are held, and no handler running
C31_Witness ==
  /\ last = Idle
  /\ \E m \in MarketIds :
       /\ ClosedUnresolved(m)
       /\ \E p \in db.positions : p.market_id = m /\ p.shares > 0

\* C32: a step that takes a market from open to resolved is taken at a time
\* at or after the market's closes_at
C32_ResolvedAfterClose ==
  [][\A m \in MarketIds :
       (db.markets[m].status = "open" /\ db'.markets[m].status = "resolved") =>
         db.markets[m].closes_at <= now]_vars

\* C33: no resolution row made from a supplied outcome has resolved_by = "auto"
C33_OverrideNotAuto ==
  \A r \in db.resolutions : r.source_response = "manual" => r.resolved_by # "auto"

\* C34: every market in the store has b > 0
C34_LiquidityPositive ==
  \A m \in DOMAIN db.markets : db.markets[m].liquidity_pool > 0

\* the resolution rows of marketId
ResolutionsOf(marketId) == {r \in db.resolutions : r.market_id = marketId}

\* C35: a market has a resolution row iff its status is resolved, it has at
\* most one, and the row's outcome is the market's outcome
C35_RowIffResolved ==
  \A m \in MarketIds :
    /\ ResolutionsOf(m) # {} <=> db.markets[m].status = "resolved"
    /\ Cardinality(ResolutionsOf(m)) <= 1
    /\ \A r \in ResolutionsOf(m) : r.outcome = db.markets[m].outcome

\* C36: once a market has its resolution row, no step changes its inventory,
\* its b, its outcome, its position rows, its transaction rows or its price
\* points, and every trade, quote and simulated trade on it is refused
C36_ResolvedFrozen ==
  /\ [](\A m \in MarketIds : ResolutionsOf(m) # {} => Refused(m))
  /\ [][\A m \in MarketIds :
          ResolutionsOf(m) # {} =>
            /\ TradeRows(db', m) = TradeRows(db, m)
            /\ db'.markets[m].liquidity_pool = db.markets[m].liquidity_pool
            /\ db'.markets[m].outcome = db.markets[m].outcome]_vars

\* a trade, a resolve call or a tick has just run while every market had its
\* resolution row, and some market holds shares
C36_Witness ==
  /\ last.op \in {"buy", "sell", "resolve", "tick"}
  /\ last.err # OK
  /\ \A m \in MarketIds : ResolutionsOf(m) # {}
  /\ \E p \in db.positions : p.shares > 0

\* ---- trading past the close time ----

MaxLate == 2            \* clock range 0..MaxLate

\* time passes; nothing in the program runs
AdvanceLate ==
  /\ last = Idle
  /\ now < MaxLate
  /\ now' = now + 1
  /\ UNCHANGED <<db, ticks, payoutLog, last>>

LateNext ==
  \/ \E u \in Users, m \in MarketIds, s \in Sides : Buy(u, m, s, 10 * Unit, 0)
  \/ \E u \in Users, m \in MarketIds, s \in Sides :
       \E a \in SellAmounts(u, m, s) : Sell(u, m, s, a, 0)
  \/ \E m \in MarketIds, o \in Sides : ManualResolve(m, o, NULL, 0)
  \/ TickStart(0)
  \/ \E tick \in BagToSet(ticks), r \in FetchResults : FetchReturn(tick, r, 0)
  \/ AdvanceLate
  \/ Return

LateSpec == Init /\ [][LateNext]_vars

\* C37: a step that commits a buy or a sell on a market (its transaction rows
\* grow) is taken at a time not later than the market's closes_at
C37_NoTradeAfterClose ==
  [][\A m \in MarketIds :
       Len(TransactionRows(db', m)) > Len(TransactionRows(db, m)) =>
         now <= db.markets[m].closes_at]_vars
====
